---- MODULE Spec2Model ----
(***************************************************************************)
(* State estimators of the project-3 robots: the ground robot (TurtleBot,  *)
(* turtlebot_proj3_pkg/src/Estimator.py + estimator_node.py, fed by ROS     *)
(* callbacks and a timer) and the aerial robot (quadrotor,                  *)
(* drone_proj3/drone_estimator.py + drone_estimator_node.py, replaying a    *)
(* recording).                                                              *)
(*                                                                          *)
(* Numbers.  The code computes in IEEE floats; the model computes in        *)
(* fixed point, thousandths (SCALE), rounding every product and quotient    *)
(* toward zero.  1.0 is 1000, dt = 0.1 s is 100, pi is 3142.  numpy's nan   *)
(* (0/0) is the value NaN, which every arithmetic operator propagates.      *)
(* sin, cos and sqrt are integer approximations of numpy's.                 *)
(***************************************************************************)
EXTENDS Integers, Sequences, FiniteSets, TLC

(***************************************************************************)
(* Bounds of the model.                                                     *)
(***************************************************************************)
\* messages received by the ground estimator (u, x and y together)
MaxMsgs == 4
\* estimates the ground oracle may append (its update has no guard)
MaxHat == 3
\* samples of the aerial recording
MaxN == 3

(***************************************************************************)
(* Fixed-point scalars.                                                     *)
(***************************************************************************)
SCALE == 1000
NaN == -999999999
PI == 3142
TWO_PI == 6283

IsNaN(a) == a = NaN

Abs(a) == IF a < 0 THEN -a ELSE a

\* integer quotient rounded toward zero
Quot(a, b) == IF (a < 0) = (b < 0) THEN Abs(a) \div Abs(b) ELSE -(Abs(a) \div Abs(b))

\* TLC evaluates an operator's argument anew at every use of the parameter;
\* the operators below bind their arguments once, as the elements of
\* singleton sets, so that nested arithmetic is evaluated once.
FAdd(a, b) ==
    CHOOSE z \in {IF IsNaN(p) \/ IsNaN(q) THEN NaN ELSE p + q : p \in {a}, q \in {b}} : TRUE
FSub(a, b) ==
    CHOOSE z \in {IF IsNaN(p) \/ IsNaN(q) THEN NaN ELSE p - q : p \in {a}, q \in {b}} : TRUE
FNeg(a) == CHOOSE z \in {IF IsNaN(p) THEN NaN ELSE -p : p \in {a}} : TRUE
FMul(a, b) ==
    CHOOSE z \in {IF IsNaN(p) \/ IsNaN(q) THEN NaN ELSE Quot(p * q, SCALE) :
                  p \in {a}, q \in {b}} : TRUE

\* numpy's a / b on array elements: 0/0 is nan (a warning, no exception).
\* A non-zero a over 0 does not occur: every denominator of the code that
\* can be 0 is 0 only together with its numerator.
FDiv(a, b) ==
    CHOOSE z \in {CASE IsNaN(p) \/ IsNaN(q) -> NaN
                    [] ~IsNaN(p) /\ q = 0 /\ p = 0 -> NaN
                    [] ~IsNaN(p) /\ ~IsNaN(q) /\ q # 0 -> Quot(p * SCALE, q) :
                  p \in {a}, q \in {b}} : TRUE

RECURSIVE IsqrtFrom(_, _, _)
IsqrtFrom(n, lo, hi) ==
    IF lo >= hi THEN lo
    ELSE LET mid == (lo + hi + 1) \div 2
         IN IF mid * mid <= n THEN IsqrtFrom(n, mid, hi) ELSE IsqrtFrom(n, lo, mid - 1)

\* floor of the square root of n, 0 <= n < 46340^2
Isqrt(n) == CHOOSE z \in {IsqrtFrom(p, 0, 46339) : p \in {n}} : TRUE

\* atan2(sin a, cos a): the angle brought into (-pi, pi)
Wrap(a) ==
    CHOOSE z \in {IF IsNaN(p) THEN NaN ELSE ((p + (PI - 1)) % TWO_PI) - (PI - 1) :
                  p \in {a}} : TRUE

\* sin of an angle in [0, pi] (Bhaskara's rational approximation)
SinHalf(a) ==
    CHOOSE z \in {(16 * q) \div ((5 * PI * PI - 4 * q) \div SCALE) : q \in {a * (PI - a)}} : TRUE

Sin(a) ==
    CHOOSE z \in {IF IsNaN(w) THEN NaN
                  ELSE IF w >= 0 THEN SinHalf(IF w > PI THEN PI ELSE w) ELSE -SinHalf(-w) :
                  w \in {Wrap(a)}} : TRUE

Cos(a) == CHOOSE z \in {IF IsNaN(p) THEN NaN ELSE Sin(p + PI \div 2) : p \in {a}} : TRUE

(***************************************************************************)
(* Vectors are sequences, matrices sequences of rows.                       *)
(***************************************************************************)
RECURSIVE SumTo(_, _)
SumTo(f, n) == IF n = 0 THEN 0 ELSE FAdd(SumTo(f, n - 1), f[n])

\* the sum of the entries of a sequence
Sum(v) == CHOOSE z \in {SumTo(f, Len(f)) : f \in {v}} : TRUE

Rows(M) == Len(M)
Cols(M) == Len(M[1])

Eye(n) == [i \in 1..n |-> [j \in 1..n |-> IF i = j THEN SCALE ELSE 0]]
Diag(dg) ==
    CHOOSE z \in {[i \in 1..Len(v) |-> [j \in 1..Len(v) |-> IF i = j THEN v[i] ELSE 0]] :
                  v \in {dg}} : TRUE
Transpose(M) ==
    CHOOSE z \in {[j \in 1..Cols(a) |-> [i \in 1..Rows(a) |-> a[i][j]]] : a \in {M}} : TRUE

MatMul(M, N) ==
    CHOOSE z \in {[i \in 1..Rows(a) |->
                     [j \in 1..Cols(b) |->
                        Sum([k \in 1..Cols(a) |-> FMul(a[i][k], b[k][j])])]] :
                  a \in {M}, b \in {N}} : TRUE

MatAdd(M, N) ==
    CHOOSE z \in {[i \in 1..Rows(a) |-> [j \in 1..Cols(a) |-> FAdd(a[i][j], b[i][j])]] :
                  a \in {M}, b \in {N}} : TRUE
MatSub(M, N) ==
    CHOOSE z \in {[i \in 1..Rows(a) |-> [j \in 1..Cols(a) |-> FSub(a[i][j], b[i][j])]] :
                  a \in {M}, b \in {N}} : TRUE
MatScale(M, s) ==
    CHOOSE z \in {[i \in 1..Rows(a) |-> [j \in 1..Cols(a) |-> FMul(a[i][j], b)]] :
                  a \in {M}, b \in {s}} : TRUE

\* a vector as a column matrix, and back
Col(v) == CHOOSE z \in {[i \in 1..Len(a) |-> <<a[i]>>] : a \in {v}} : TRUE
Flat(M) == CHOOSE z \in {[i \in 1..Rows(a) |-> a[i][1]] : a \in {M}} : TRUE

HasNaN(M) ==
    \E a \in {M} : \E i \in 1..Rows(a) : \E j \in 1..Cols(a) : IsNaN(a[i][j])

Det2(S) ==
    CHOOSE z \in {FSub(FMul(a[1][1], a[2][2]), FMul(a[1][2], a[2][1])) : a \in {S}} : TRUE

\* numpy.linalg.inv of a 2x2 matrix raises LinAlgError when LAPACK meets a
\* zero pivot, that is when the matrix is singular; a matrix holding nan is
\* returned as nan, without an exception.
InvRaises(S) == \E a \in {S} : ~HasNaN(a) /\ Det2(a) = 0

Inv2(S) ==
    CHOOSE z \in {IF HasNaN(a) THEN [i \in 1..2 |-> [j \in 1..2 |-> NaN]]
                  ELSE LET dets == Det2(a)
                       IN << <<FDiv(a[2][2], dets), FDiv(-a[1][2], dets)>>,
                             <<FDiv(-a[2][1], dets), FDiv(a[1][1], dets)>> >> :
                  a \in {S}} : TRUE

\* sqrt of the sum of the squares of a sequence of fixed-point numbers
Norm(v) ==
    CHOOSE z \in {IF \E k \in 1..Len(a) : IsNaN(a[k]) THEN NaN
                  ELSE Isqrt(Sum([k \in 1..Len(a) |-> a[k] * a[k]])) : a \in {v}} : TRUE

(***************************************************************************)
(* Parameters set by the constructors.                                      *)
(***************************************************************************)
\* ground robot: half track width, wheel radius, timer period (Estimator.__init__)
d == 80
r == 33
dt == 100
\* aerial robot: gravity, mass, moment of inertia in 1/10000 (Estimator.__init__)
gr == 9810
m == 920
J == 23

Unset == <<>>

\* An estimator object with every attribute; Unset for one its class lacks.
NoEstimator ==
    [cls |-> "none", u |-> <<>>, x |-> <<>>, y |-> <<>>, x_hat |-> <<>>,
     update_times |-> <<>>, t |-> <<>>, data |-> <<>>, dt |-> 0,
     phid |-> Unset, landmark |-> Unset,
     A |-> Unset, B |-> Unset, C |-> Unset, Q |-> Unset, R |-> Unset, P |-> Unset]

\* turtlebot Estimator.__init__: empty buffers, dt = 0.1
GroundEstimator(cls) == [NoEstimator EXCEPT !.cls = cls, !.dt = dt]

GroundOracleObserver == GroundEstimator("OracleObserver")

GroundDeadReckoning == GroundEstimator("DeadReckoning")

KF_phid == Quot(PI * SCALE, 4 * SCALE)

KF_B ==
    MatScale(<< <<FMul(Quot(r, 2), Cos(KF_phid)), FMul(Quot(r, 2), Cos(KF_phid))>>,
                <<FMul(Quot(r, 2), Sin(KF_phid)), FMul(Quot(r, 2), Sin(KF_phid))>>,
                <<SCALE, 0>>,
                <<0, SCALE>> >>, dt)

GroundKalmanFilter ==
    [GroundEstimator("KalmanFilter") EXCEPT
        !.phid = KF_phid,
        !.A = Eye(4),
        !.B = KF_B,
        !.C = << <<SCALE, 0, 0, 0>>, <<0, SCALE, 0, 0>> >>,
        !.Q = Eye(4),
        !.R = Diag(<<1000, 1000>>),
        !.P = Diag(<<1000, 1000, 1000, 1000>>)]

GroundExtendedKalmanFilter ==
    [GroundEstimator("ExtendedKalmanFilter") EXCEPT
        !.landmark = <<500, 500>>,
        !.A = Eye(5),
        !.Q = Diag(<<3000, 700, 2000, 1000, 1000>>),
        !.R = Diag(<<7000, 1000>>),
        !.P = Diag(<<700, 300, 500, 100, 100>>)]

(***************************************************************************)
(* The state.                                                               *)
(***************************************************************************)
VARIABLES
    launch,     \* the node started and its parameters: platform, estimator_type, freeze_bearing
    pc,         \* where main is: "main", "spin" (ground), "run"/"ran" (aerial), "done", "crashed"
    estimator,  \* the estimator object main holds (NoEstimator before construction)
    last_op,    \* the operation that ran last
    raised,     \* the exception it raised, or "none"
    used,       \* history: for each estimate an update appended, the indexes of the samples it read
    error,      \* what calc_error returned last, Unset before
    tmr         \* the timer thread inside update: where it is and the estimate its guard tested

vars == <<launch, pc, estimator, last_op, raised, used, error, tmr>>

\* the timer thread between two firings
Idle == [at |-> "idle", prev |-> Unset]

Last(s) == s[Len(s)]

\* What an update call did: the object after it, the exception it raised
\* ("none" for a normal return), whether the body behind its guard was entered,
\* and the samples read by the estimate it appended (0: not read).
Result(e, exc, ran) == [est |-> e, exc |-> exc, ran |-> ran]

(***************************************************************************)
(* Ground robot: the update methods (Estimator.py).                         *)
(***************************************************************************)
\* an oracle that copies the first true state instead of the latest
Oracle_update_first(e) ==
    IF Len(e.x) = 0 THEN Result(e, "IndexError", TRUE)
    ELSE Result([e EXCEPT !.x_hat = Append(@, e.x[1])], "none", TRUE)

\* an oracle that skips the tick when no true state has been received
Oracle_update_guarded(e) ==
    IF Len(e.x) = 0 THEN Result(e, "none", FALSE)
    ELSE Result([e EXCEPT !.x_hat = Append(@, Last(e.x))], "none", TRUE)

\* OracleObserver.update: x_hat.append(x[-1]); x[-1] of an empty list raises
GroundOracle_update(e) ==
    IF Len(e.x) = 0 THEN Result(e, "IndexError", TRUE)
    ELSE Result([e EXCEPT !.x_hat = Append(@, Last(e.x))], "none", TRUE)

\* a guard without the comparison of the timestamps
Guard_no_timestamp(e) == Len(e.x_hat) > 0

\* the guard of DeadReckoning, KalmanFilter and ExtendedKalmanFilter.update
\* a guard that also lets an estimate level with the true-state clock step
Guard_not_after(e) == Len(e.x_hat) > 0 /\ Last(e.x_hat)[1] <= Last(e.x)[1]

GroundGuard(e) == Len(e.x_hat) > 0 /\ Last(e.x_hat)[1] < Last(e.x)[1]

\* DeadReckoning.__init__.f: xs is a state with its timestamp, us an input with its timestamp
DR_f(xs, us) ==
    LET matrix == << <<-FDiv(r, 2 * d), FDiv(r, 2 * d)>>,
                     <<FMul(Quot(r, 2), Cos(xs[2])), FMul(Quot(r, 2), Cos(xs[2]))>>,
                     <<FMul(Quot(r, 2), Sin(xs[2])), FMul(Quot(r, 2), Sin(xs[2]))>>,
                     <<SCALE, 0>>,
                     <<0, SCALE>> >>
        u_vector == Col(<<us[2], us[3]>>)
    IN Flat(MatMul(matrix, u_vector))

\* DeadReckoning.model: x[1:] + f(x, u) * dt
DR_model(xs, us, step) == [k \in 1..5 |-> FAdd(xs[k + 1], FMul(DR_f(xs, us)[k], step))]

\* a dead-reckoning update that integrates over the measured time
DR_update_elapsed_step(e, elapsed) ==
    IF GroundGuard(e)
    THEN IF Len(e.u) = 0 THEN Result(e, "IndexError", TRUE)
         ELSE LET x_hat_next == <<Last(e.x_hat)[1] + e.dt>>
                                \o DR_model(Last(e.x_hat), Last(e.u), elapsed)
              IN Result([e EXCEPT !.x_hat = Append(@, x_hat_next),
                                  !.update_times = Append(@, elapsed)], "none", TRUE)
    ELSE Result(e, "none", FALSE)

\* a dead-reckoning update that waits for a measurement
DR_update_needs_y(e, elapsed) ==
    IF GroundGuard(e) /\ Len(e.y) > 0
    THEN IF Len(e.u) = 0 THEN Result(e, "IndexError", TRUE)
         ELSE LET x_hat_next == <<Last(e.x_hat)[1] + e.dt>>
                                \o DR_model(Last(e.x_hat), Last(e.u), e.dt)
              IN Result([e EXCEPT !.x_hat = Append(@, x_hat_next),
                                  !.update_times = Append(@, elapsed)], "none", TRUE)
    ELSE Result(e, "none", FALSE)

\* a dead-reckoning update that records no timing
DR_update_untimed(e, elapsed) ==
    IF GroundGuard(e)
    THEN IF Len(e.u) = 0 THEN Result(e, "IndexError", TRUE)
         ELSE LET x_hat_next == <<Last(e.x_hat)[1] + e.dt>>
                                \o DR_model(Last(e.x_hat), Last(e.u), e.dt)
              IN Result([e EXCEPT !.x_hat = Append(@, x_hat_next)], "none", TRUE)
    ELSE Result(e, "none", FALSE)

\* DeadReckoning.update
GroundDeadReckoning_update(e, elapsed) ==
    IF GroundGuard(e)
    THEN IF Len(e.u) = 0 THEN Result(e, "IndexError", TRUE)
         ELSE LET x_hat_next == <<Last(e.x_hat)[1] + e.dt>>
                                \o DR_model(Last(e.x_hat), Last(e.u), e.dt)
              IN Result([e EXCEPT !.x_hat = Append(@, x_hat_next),
                                  !.update_times = Append(@, elapsed)], "none", TRUE)
    ELSE Result(e, "none", FALSE)

\* a Kalman filter update that carries the previous estimate's bearing over
KF_update_carries_bearing(e, elapsed) ==
    IF GroundGuard(e)
    THEN IF Len(e.u) = 0 THEN Result(e, "IndexError", TRUE)
         ELSE LET x_hat_prev == Col(SubSeq(Last(e.x_hat), 3, 6))
                  u_prev == Col(SubSeq(Last(e.u), 2, 3))
                  x_pred == MatAdd(MatMul(e.A, x_hat_prev), MatMul(e.B, u_prev))
                  P_pred == MatAdd(MatMul(MatMul(e.A, e.P), Transpose(e.A)), e.Q)
                  S == MatAdd(MatMul(MatMul(e.C, P_pred), Transpose(e.C)), e.R)
              IN IF InvRaises(S) THEN Result(e, "LinAlgError", TRUE)
                 ELSE IF Len(e.y) = 0 THEN Result(e, "IndexError", TRUE)
                 ELSE LET K == MatMul(MatMul(P_pred, Transpose(e.C)), Inv2(S))
                          y_err == MatSub(Col(SubSeq(Last(e.y), 2, 3)), MatMul(e.C, x_pred))
                          x_new == MatAdd(x_pred, MatMul(K, y_err))
                          x_hat_next == <<Last(e.x_hat)[1] + e.dt, Last(e.x_hat)[2]>>
                                        \o Flat(x_new)
                      IN Result([e EXCEPT
                                    !.x_hat = Append(@, x_hat_next),
                                    !.P = MatMul(MatSub(Eye(Rows(e.P)), MatMul(K, e.C)), P_pred),
                                    !.update_times = Append(@, elapsed)], "none", TRUE)
    ELSE Result(e, "none", FALSE)

\* KalmanFilter.update
GroundKalmanFilter_update(e, elapsed) ==
    IF GroundGuard(e)
    THEN IF Len(e.u) = 0 THEN Result(e, "IndexError", TRUE)
         ELSE LET x_hat_prev == Col(SubSeq(Last(e.x_hat), 3, 6))
                  u_prev == Col(SubSeq(Last(e.u), 2, 3))
                  x_pred == MatAdd(MatMul(e.A, x_hat_prev), MatMul(e.B, u_prev))
                  P_pred == MatAdd(MatMul(MatMul(e.A, e.P), Transpose(e.A)), e.Q)
                  S == MatAdd(MatMul(MatMul(e.C, P_pred), Transpose(e.C)), e.R)
              IN IF InvRaises(S) THEN Result(e, "LinAlgError", TRUE)
                 ELSE IF Len(e.y) = 0 THEN Result(e, "IndexError", TRUE)
                 ELSE LET K == MatMul(MatMul(P_pred, Transpose(e.C)), Inv2(S))
                          y_err == MatSub(Col(SubSeq(Last(e.y), 2, 3)), MatMul(e.C, x_pred))
                          x_new == MatAdd(x_pred, MatMul(K, y_err))
                          x_hat_next == <<Last(e.x_hat)[1] + e.dt, e.phid>> \o Flat(x_new)
                      IN Result([e EXCEPT
                                    !.x_hat = Append(@, x_hat_next),
                                    !.P = MatMul(MatSub(Eye(Rows(e.P)), MatMul(K, e.C)), P_pred),
                                    !.update_times = Append(@, elapsed)], "none", TRUE)
    ELSE Result(e, "none", FALSE)

\* ExtendedKalmanFilter.__init__.f: xs is a state without timestamp (bearing first)
EKF_f(xs, us) ==
    LET matrix == << <<-FDiv(r, 2 * d), FDiv(r, 2 * d)>>,
                     <<FMul(Quot(r, 2), Cos(xs[1])), FMul(Quot(r, 2), Cos(xs[1]))>>,
                     <<FMul(Quot(r, 2), Sin(xs[1])), FMul(Quot(r, 2), Sin(xs[1]))>>,
                     <<SCALE, 0>>,
                     <<0, SCALE>> >>
        u_vector == Col(<<us[1], us[2]>>)
    IN MatMul(matrix, u_vector)

\* ExtendedKalmanFilter.__init__.A_bar: Jacobian of g(x, u) w.r.t. x
EKF_A_bar(x_star, u_star, step) ==
    LET a10 == FMul(FMul(FMul(-Quot(r, 2), Sin(x_star[1])), FAdd(u_star[1], u_star[2])), step)
        a20 == FMul(FMul(FMul(Quot(r, 2), Cos(x_star[1])), FAdd(u_star[1], u_star[2])), step)
    IN [i \in 1..5 |-> [j \in 1..5 |->
            CASE i = 2 /\ j = 1 -> a10
              [] i = 3 /\ j = 1 -> a20
              [] OTHER -> Eye(5)[i][j]]]

\* ExtendedKalmanFilter.model: g(x, u) = x + f(x, u) * dt, a column
EKF_model(xs, us, step) == MatAdd(Col(xs), MatScale(EKF_f(xs, us), step))

\* ExtendedKalmanFilter.__init__.h: xc is a column state
EKF_h(xc, landmark) ==
    << <<Norm(<<FSub(landmark[1], xc[2][1]), FSub(landmark[2], xc[3][1])>>)>>,
       <<xc[1][1]>> >>

\* the measurement Jacobian ExtendedKalmanFilter.update builds in C_bar
EKF_C_bar(x_pred, landmark) ==
    LET dist == Norm(<<FSub(landmark[1], x_pred[2][1]), FSub(landmark[2], x_pred[3][1])>>)
    IN << <<0, FDiv(FSub(x_pred[2][1], landmark[1]), dist),
               FDiv(FSub(x_pred[3][1], landmark[2]), dist), 0, 0>>,
          <<SCALE, 0, 0, 0, 0>> >>

\* ExtendedKalmanFilter.update: self.A and self.C are assigned before the
\* inversion and before y[-1] is read
GroundExtendedKalmanFilter_update(e, elapsed) ==
    IF GroundGuard(e)
    THEN IF Len(e.u) = 0 THEN Result(e, "IndexError", TRUE)
         ELSE LET x_hat_prev == SubSeq(Last(e.x_hat), 2, 6)
                  u_prev == SubSeq(Last(e.u), 2, 3)
                  x_pred == EKF_model(x_hat_prev, u_prev, e.dt)
                  A_new == EKF_A_bar(x_hat_prev, u_prev, e.dt)
                  P_pred == MatAdd(MatMul(MatMul(A_new, e.P), Transpose(A_new)), e.Q)
                  C_new == EKF_C_bar(x_pred, e.landmark)
                  S == MatAdd(MatMul(MatMul(C_new, P_pred), Transpose(C_new)), e.R)
                  e1 == [e EXCEPT !.A = A_new, !.C = C_new]
              IN IF InvRaises(S) THEN Result(e1, "LinAlgError", TRUE)
                 ELSE IF Len(e.y) = 0 THEN Result(e1, "IndexError", TRUE)
                 ELSE LET K == MatMul(MatMul(P_pred, Transpose(C_new)), Inv2(S))
                          y_err == MatSub(Col(SubSeq(Last(e.y), 2, 3)), EKF_h(x_pred, e.landmark))
                          x_new == MatAdd(x_pred, MatMul(K, y_err))
                          x_hat_next == <<Last(e.x_hat)[1] + e.dt>> \o Flat(x_new)
                      IN Result([e1 EXCEPT
                                    !.x_hat = Append(@, x_hat_next),
                                    !.P = MatMul(MatSub(Eye(Rows(e.P)), MatMul(K, C_new)), P_pred),
                                    !.update_times = Append(@, elapsed)], "none", TRUE)
    ELSE Result(e, "none", FALSE)

(***************************************************************************)
(* calc_error (ground): the per-component norm of x_hat - x.                *)
(***************************************************************************)
\* numpy broadcasting of two rows along their only axis: the lengths must be
\* equal, or one of them 1 (that row is repeated)
Broadcastable(n1, n2) == n1 = n2 \/ n1 = 1 \/ n2 = 1

RowSub(a, b) ==
    LET n == IF Len(a) > Len(b) THEN Len(a) ELSE Len(b)
    IN [k \in 1..n |-> FSub(IF Len(a) = 1 THEN a[1] ELSE a[k],
                            IF Len(b) = 1 THEN b[1] ELSE b[k])]

\* Estimator.calc_error of the ground robot, on the lists x_hat and x
GroundCalcError(x_hat, x) ==
    LET estimated_states ==
            IF Len(x_hat) > Len(x) THEN SubSeq(x_hat, 1, Len(x)) ELSE x_hat
        est(c) == [k \in 1..Len(estimated_states) |->
                      IF c = 2 THEN Wrap(estimated_states[k][c]) ELSE estimated_states[k][c]]
        act(c) == [k \in 1..Len(x) |-> IF c = 2 THEN Wrap(x[k][c]) ELSE x[k][c]]
    IN CASE Len(x_hat) = 0 \/ Len(x) = 0 -> [exc |-> "IndexError", value |-> Unset]
         [] Len(x_hat) > 0 /\ Len(x) > 0 /\ ~Broadcastable(Len(estimated_states), Len(x)) ->
                [exc |-> "ValueError", value |-> Unset]
         [] OTHER -> [exc |-> "none",
                      value |-> [c \in 1..5 |-> Norm(RowSub(est(c + 1), act(c + 1)))]]

(***************************************************************************)
(* Ground robot: the node (estimator_node.py) and its callbacks.            *)
(***************************************************************************)
GroundTypes == {"oracle_observer", "dead_reckoning", "kalman_filter",
                "extended_kalman_filter", "particle_filter"}

\* roslaunch arguments: every estimator type with the freeze_bearing its
\* docstring gives, and the Kalman filter with freeze_bearing:=false too
GroundLaunches ==
    {[platform |-> "ground", estimator_type |-> ty, freeze_bearing |-> fb] :
        ty \in GroundTypes, fb \in BOOLEAN}
    \ {l \in [platform : {"ground"}, estimator_type : GroundTypes, freeze_bearing : BOOLEAN] :
        l.freeze_bearing /\ l.estimator_type # "kalman_filter"}

\* elapsed time measured around one update, in clock ticks: its value enters
\* nothing but the timing series, so one value stands for all
Durations == {1}

\* Messages of the simulator.  A true state is (t, phi, x, y, thl, thr); its
\* timestamp is the previous one plus `after`.  With freeze_bearing the
\* bearing is pi/4 and a measurement is the position, else (range, bearing).
XChoices(fb) ==
    IF fb THEN {[after |-> 50, s |-> <<KF_phid, 500, 500, 0, 0>>],
                [after |-> 150, s |-> <<KF_phid, 0, 0, 100, 100>>]}
    ELSE {[after |-> 50, s |-> <<PI - 10, 500, 500, 0, 0>>],
          [after |-> 150, s |-> <<-(PI - 10), 0, 0, 100, 100>>]}

UChoices == {<<0, 0>>, <<2000, 4000>>}

YChoices(fb) ==
    IF fb THEN {<<500, 500>>, <<0, 0>>}
    ELSE {<<0, PI - 10>>, <<707, -(PI - 10)>>}

\* the simulator's clock when it publishes: the time of the latest true state
Now(e) == IF Len(e.x) = 0 THEN 0 ELSE Last(e.x)[1]

Received(e) == Len(e.u) + Len(e.x) + Len(e.y)

\* estimator_node.main up to spin: the estimator is chosen by name
GroundMain ==
    /\ pc = "main" /\ launch.platform = "ground"
    /\ LET ty == launch.estimator_type
       IN IF ty \in {"oracle_observer", "dead_reckoning", "kalman_filter",
                     "extended_kalman_filter"}
          THEN /\ estimator' = CASE ty = "oracle_observer" -> GroundOracleObserver
                                 [] ty = "dead_reckoning" -> GroundDeadReckoning
                                 [] ty = "kalman_filter" -> GroundKalmanFilter
                                 [] ty = "extended_kalman_filter" -> GroundExtendedKalmanFilter
               /\ pc' = "spin"
               /\ raised' = "none"
          ELSE /\ estimator' = estimator
               /\ pc' = "crashed"
               /\ raised' = "RuntimeError"
    /\ last_op' = "main"
    /\ UNCHANGED <<tmr, launch, used, error>>

\* a callback that keeps only the latest input
callback_u_latest_only ==
    /\ pc = "spin" /\ Received(estimator) < MaxMsgs
    /\ \E c \in UChoices :
          estimator' = [estimator EXCEPT !.u = <<<<Now(estimator)>> \o c>>]
    /\ last_op' = "callback_u" /\ raised' = "none"
    /\ UNCHANGED <<tmr, launch, pc, used, error>>

callback_u ==
    /\ pc = "spin" /\ Received(estimator) < MaxMsgs
    /\ \E c \in UChoices :
          estimator' = [estimator EXCEPT !.u = Append(@, <<Now(estimator)>> \o c)]
    /\ last_op' = "callback_u" /\ raised' = "none"
    /\ UNCHANGED <<tmr, launch, pc, used, error>>

\* The true states the simulator can publish next: one of XChoices, or,
\* while the bearing is free, the forward-Euler step of the unicycle model
\* from the latest true state under the latest input, or the latest true
\* state once more under its old timestamp (timestamps never decrease).
XData(e, fb) ==
    {<<Now(e) + c.after>> \o c.s : c \in XChoices(fb)}
    \cup (IF ~fb /\ Len(e.x) > 0 /\ Len(e.u) > 0
          THEN {<<Last(e.x)[1] + e.dt>> \o DR_model(Last(e.x), Last(e.u), e.dt)}
          ELSE {})
    \cup (IF Len(e.x) > 0 THEN {Last(e.x)} ELSE {})

\* a callback that appends every true state to the estimate history
callback_x_appends_estimate ==
    /\ pc = "spin" /\ Received(estimator) < MaxMsgs
    /\ \E data \in XData(estimator, launch.freeze_bearing) :
             estimator' = [estimator EXCEPT
                              !.x = Append(@, data),
                              !.x_hat = Append(@, data)]
    /\ last_op' = "callback_x" /\ raised' = "none"
    /\ UNCHANGED <<tmr, launch, pc, used, error>>

\* a callback that seeds again while the seed is the only estimate
callback_x_reseed ==
    /\ pc = "spin" /\ Received(estimator) < MaxMsgs
    /\ \E data \in XData(estimator, launch.freeze_bearing) :
             estimator' = [estimator EXCEPT
                              !.x = Append(@, data),
                              !.x_hat = IF Len(@) <= 1 THEN <<data>> ELSE @]
    /\ last_op' = "callback_x" /\ raised' = "none"
    /\ UNCHANGED <<tmr, launch, pc, used, error>>

callback_x ==
    /\ pc = "spin" /\ Received(estimator) < MaxMsgs
    /\ \E data \in XData(estimator, launch.freeze_bearing) :
             estimator' = [estimator EXCEPT
                              !.x = Append(@, data),
                              !.x_hat = IF Len(@) = 0 THEN Append(@, data) ELSE @]
    /\ last_op' = "callback_x" /\ raised' = "none"
    /\ UNCHANGED <<tmr, launch, pc, used, error>>

callback_y ==
    /\ pc = "spin" /\ Received(estimator) < MaxMsgs
    /\ \E c \in YChoices(launch.freeze_bearing) :
          estimator' = [estimator EXCEPT !.y = Append(@, <<Now(estimator)>> \o c)]
    /\ last_op' = "callback_y" /\ raised' = "none"
    /\ UNCHANGED <<tmr, launch, pc, used, error>>

\* an update that doubles the measurement noise covariance after a filter step
GroundUpdate_inflating_R(e, elapsed) ==
    LET res == CASE e.cls = "OracleObserver" -> GroundOracle_update(e)
                 [] e.cls = "DeadReckoning" -> GroundDeadReckoning_update(e, elapsed)
                 [] e.cls = "KalmanFilter" -> GroundKalmanFilter_update(e, elapsed)
                 [] e.cls = "ExtendedKalmanFilter" -> GroundExtendedKalmanFilter_update(e, elapsed)
    IN IF res.ran /\ res.exc = "none" /\ e.cls \in {"KalmanFilter", "ExtendedKalmanFilter"}
       THEN [res EXCEPT !.est.R = MatAdd(@, @)]
       ELSE res

\* the update method of the object's class
GroundUpdate(e, elapsed) ==
    CASE e.cls = "OracleObserver" -> GroundOracle_update(e)
      [] e.cls = "DeadReckoning" -> GroundDeadReckoning_update(e, elapsed)
      [] e.cls = "KalmanFilter" -> GroundKalmanFilter_update(e, elapsed)
      [] e.cls = "ExtendedKalmanFilter" -> GroundExtendedKalmanFilter_update(e, elapsed)

\* the samples an update of this class reads for the estimate it appends
ReadBy(e) ==
    CASE e.cls = "OracleObserver" -> [x |-> Len(e.x), u |-> 0, y |-> 0]
      [] e.cls = "DeadReckoning" -> [x |-> 0, u |-> Len(e.u), y |-> 0]
      [] OTHER -> [x |-> 0, u |-> Len(e.u), y |-> Len(e.y)]

\* one firing of tmr_update
Update ==
    /\ pc = "spin"
    /\ estimator.cls = "OracleObserver" => Len(estimator.x_hat) < MaxHat
    /\ \E elapsed \in Durations :
          \E res \in {GroundUpdate(estimator, elapsed)} :
             /\ estimator' = res.est
             /\ raised' = res.exc
             /\ last_op' = IF res.ran THEN "update" ELSE "update_skipped"
             /\ used' = IF Len(res.est.x_hat) > Len(estimator.x_hat)
                        THEN Append(used, ReadBy(estimator)) ELSE used
    /\ UNCHANGED <<tmr, launch, pc, error>>

\* A firing of tmr_update as the timer thread runs it beside the subscriber
\* threads.  TickBegin is the guard of update: a false guard ends the tick,
\* a true one (the oracle has none) leaves the thread before the body.
TickBegin ==
    /\ pc = "spin" /\ tmr.at = "idle"
    /\ estimator.cls = "OracleObserver" => Len(estimator.x_hat) < MaxHat
    /\ IF estimator.cls = "OracleObserver" \/ GroundGuard(estimator)
       THEN /\ tmr' = [at |-> "body",
                       prev |-> IF Len(estimator.x_hat) > 0
                                THEN Last(estimator.x_hat) ELSE Unset]
            /\ last_op' = "update_begin"
       ELSE /\ tmr' = Idle
            /\ last_op' = "update_skipped"
    /\ raised' = "none"
    /\ UNCHANGED <<launch, pc, estimator, used, error>>

\* TickBody is the body of update, on the buffers as they are by then
TickBody ==
    /\ pc = "spin" /\ tmr.at = "body"
    /\ \E elapsed \in Durations :
          \E res \in {GroundUpdate(estimator, elapsed)} :
             /\ estimator' = res.est
             /\ raised' = res.exc
             /\ last_op' = IF res.ran THEN "update" ELSE "update_skipped"
             /\ used' = IF Len(res.est.x_hat) > Len(estimator.x_hat)
                        THEN Append(used, ReadBy(estimator)) ELSE used
    /\ tmr' = Idle
    /\ UNCHANGED <<launch, pc, error>>

\* estimator_node.main after spin returns: the error report
GroundReport ==
    /\ pc = "spin" /\ launch.platform = "ground"
    /\ \E res \in {GroundCalcError(estimator.x_hat, estimator.x)} :
          /\ error' = res.value
          /\ raised' = res.exc
          /\ pc' = IF res.exc = "none" THEN "done" ELSE "crashed"
    /\ last_op' = "calc_error"
    /\ UNCHANGED <<tmr, launch, estimator, used>>

(***************************************************************************)
(* Aerial robot: the estimators (drone_estimator.py).                       *)
(***************************************************************************)
\* A row of the recording is (t, x[6], u[2], y[2]); a state is
\* (x, z, phi, vx, vz, omega).  Estimator.__init__ reads the recording and
\* sets dt = data[-1][0] / data.shape[0]; an empty recording has no data[-1].
AerialEstimator(cls, data) ==
    [NoEstimator EXCEPT
        !.cls = cls,
        !.landmark = <<0, 5000, 5000>>,
        !.data = data,
        !.dt = Quot(Last(data)[1], Len(data))]

AerialOracleObserver(data) == AerialEstimator("OracleObserver", data)

AerialDeadReckoning(data) == AerialEstimator("DeadReckoning", data)

AerialExtendedKalmanFilter(data) ==
    [AerialEstimator("ExtendedKalmanFilter", data) EXCEPT
        !.Q = Diag(<<2000, 30, 7000, 2000, 13000, 500>>),
        !.R = Diag(<<1700, 500>>),
        !.P = Diag(<<2000, 90000, 200, 2000, 50000, 500>>)]

\* OracleObserver.update
AerialOracle_update(e) ==
    IF Len(e.x) = 0 THEN Result(e, "IndexError", TRUE)
    ELSE Result([e EXCEPT !.x_hat = Append(@, Last(e.x))], "none", TRUE)

\* x + f(x, u) * dt, a column: DeadReckoning.model and ExtendedKalmanFilter.g
Aerial_g(xs, us, step) ==
    LET first_term == Col(<<xs[4], xs[5], xs[6], 0, -gr, 0>>)
        second_term == << <<0, 0>>, <<0, 0>>, <<0, 0>>,
                          <<FDiv(FNeg(Sin(xs[3])), m), 0>>,
                          <<FDiv(Cos(xs[3]), m), 0>>,
                          <<0, Quot(10000 * SCALE, J)>> >>
        u_term == Col(<<us[1], us[2]>>)
        f_term == MatAdd(first_term, MatMul(second_term, u_term))
    IN MatAdd(Col(xs), MatScale(f_term, step))

\* DeadReckoning.update
AerialDeadReckoning_update(e, elapsed) ==
    IF Len(e.x_hat) > 0
    THEN IF Len(e.u) = 0 THEN Result(e, "IndexError", TRUE)
         ELSE Result([e EXCEPT
                        !.x_hat = Append(@, Flat(Aerial_g(Last(e.x_hat), Last(e.u), e.dt))),
                        !.update_times = Append(@, elapsed)], "none", TRUE)
    ELSE Result(e, "none", FALSE)

\* ExtendedKalmanFilter.h: the range uses x[0], x[1], x[2] against the
\* three coordinates of the landmark; xc is a column state
Aerial_h(xc, y_obs) ==
    << <<Norm(<<FSub(xc[1][1], y_obs[1]), FSub(xc[2][1], y_obs[2]), FSub(xc[3][1], y_obs[3])>>)>>,
       <<xc[3][1]>> >>

\* ExtendedKalmanFilter.approx_A
Aerial_approx_A(xs, us, step) ==
    LET a32 == FMul(FDiv(FMul(FNeg(Cos(xs[3])), us[1]), m), step)
        a42 == FMul(FDiv(FMul(FNeg(Sin(xs[3])), us[1]), m), step)
    IN [i \in 1..6 |-> [j \in 1..6 |->
            FAdd(FAdd(Eye(6)[i][j], IF i >= 4 /\ j <= 3 /\ i - 3 = j THEN step ELSE 0),
                 CASE i = 4 /\ j = 3 -> a32
                   [] i = 5 /\ j = 3 -> a42
                   [] OTHER -> 0)]]

\* ExtendedKalmanFilter.approx_C: xc is a column state
Aerial_approx_C(xc, landmark) ==
    LET dist == Norm(<<FSub(xc[1][1], landmark[1]), landmark[2], FSub(xc[2][1], landmark[3])>>)
    IN << <<FDiv(FSub(xc[1][1], landmark[1]), dist),
            FDiv(FSub(xc[2][1], landmark[3]), dist), 0, 0, 0, 0>>,
          <<0, 0, SCALE, 0, 0, 0>> >>

\* ExtendedKalmanFilter.update; the measurement is reshaped to (2, 1), which
\* raises unless it holds two values
AerialExtendedKalmanFilter_update(e, elapsed) ==
    IF Len(e.x_hat) > 0
    THEN IF Len(e.u) = 0 THEN Result(e, "IndexError", TRUE)
         ELSE LET x_hat_prev == Last(e.x_hat)
                  u_prev == Last(e.u)
                  x_pred == Aerial_g(x_hat_prev, u_prev, e.dt)
                  A_new == Aerial_approx_A(x_hat_prev, u_prev, e.dt)
                  P_pred == MatAdd(MatMul(MatMul(A_new, e.P), Transpose(A_new)), e.Q)
                  C_new == Aerial_approx_C(x_pred, e.landmark)
                  S == MatAdd(MatMul(MatMul(C_new, P_pred), Transpose(C_new)), e.R)
                  e1 == [e EXCEPT !.A = A_new, !.C = C_new]
              IN IF InvRaises(S) THEN Result(e1, "LinAlgError", TRUE)
                 ELSE IF Len(e.y) = 0 THEN Result(e1, "IndexError", TRUE)
                 ELSE IF Len(Last(e.y)) # 2 THEN Result(e1, "ValueError", TRUE)
                 ELSE LET K == MatMul(MatMul(P_pred, Transpose(C_new)), Inv2(S))
                          y_err == MatSub(Col(Last(e.y)), Aerial_h(x_pred, e.landmark))
                          x_new == MatAdd(x_pred, MatMul(K, y_err))
                      IN Result([e1 EXCEPT
                                    !.x_hat = Append(@, Flat(x_new)),
                                    !.P = MatMul(MatSub(Eye(Rows(e.P)), MatMul(K, C_new)), P_pred),
                                    !.update_times = Append(@, elapsed)], "none", TRUE)
    ELSE Result(e, "none", FALSE)

\* Estimator.calc_error of the aerial robot: no truncation
AerialCalcError(x_hat, x) ==
    LET est(c) == [k \in 1..Len(x_hat) |-> IF c = 3 THEN Wrap(x_hat[k][c]) ELSE x_hat[k][c]]
        act(c) == [k \in 1..Len(x) |-> IF c = 3 THEN Wrap(x[k][c]) ELSE x[k][c]]
    IN CASE Len(x_hat) = 0 \/ Len(x) = 0 -> [exc |-> "IndexError", value |-> Unset]
         [] Len(x_hat) > 0 /\ Len(x) > 0 /\ ~Broadcastable(Len(x_hat), Len(x)) ->
                [exc |-> "ValueError", value |-> Unset]
         [] OTHER -> [exc |-> "none",
                      value |-> [c \in 1..6 |-> Norm(RowSub(est(c), act(c)))]]

(***************************************************************************)
(* Aerial robot: the node (drone_estimator_node.py) and run().              *)
(***************************************************************************)
AerialTypes == {"oracle", "dr", "kf", "ekf", "pf"}

AerialLaunches ==
    {[platform |-> "aerial", estimator_type |-> ty, freeze_bearing |-> FALSE] :
        ty \in AerialTypes}

\* the states, inputs and measurements a recording is made of: six state
\* values, two inputs and the two measurements (range, bearing) that h
\* predicts and the 2 x 2 matrix R weighs, so a row has eleven columns
AerialSamples ==
    {<<0, 5000, 0, 0, 0, 0>> \o <<9025, 0>> \o <<0, 0>>,
     <<1000, 4000, PI - 10, 500, 0, 100>> \o <<9500, 1>> \o <<1414, PI - 10>>}

\* recordings sampled every 0.1 s from t = 0
RECURSIVE RecordingsOfLen(_)
RecordingsOfLen(n) ==
    IF n = 0 THEN {<<>>}
    ELSE {Append(rec, <<(n - 1) * 100>> \o smp) : rec \in RecordingsOfLen(n - 1), smp \in AerialSamples}

\* the recording of n samples of a flight that follows the forward-Euler step
\* of the quadrotor model from the state of smp under the input of smp
RECURSIVE EulerRecording(_, _, _)
EulerRecording(n, len, smp) ==
    IF n = 1 THEN << <<0>> \o smp >>
    ELSE LET rec == EulerRecording(n - 1, len, smp)
             nxt == Flat(Aerial_g(SubSeq(Last(rec), 2, 7), SubSeq(smp, 7, 8),
                                  Quot((len - 1) * 100, len)))
         IN Append(rec, <<(n - 1) * 100>> \o nxt \o SubSeq(smp, 7, 10))

Recordings ==
    UNION {RecordingsOfLen(n) : n \in 0..MaxN}
    \cup {EulerRecording(n, n, smp) : n \in 2..MaxN, smp \in AerialSamples}

\* drone_estimator_node.main up to spin: the estimator is chosen by name and
\* its constructor loads the recording
AerialMain ==
    /\ pc = "main" /\ launch.platform = "aerial"
    /\ \E data \in Recordings :
        LET ty == launch.estimator_type
        IN IF ty \in {"oracle", "dr", "ekf"}
           THEN IF Len(data) = 0
                THEN /\ estimator' = estimator
                     /\ pc' = "crashed"
                     /\ raised' = "IndexError"
                ELSE /\ estimator' = CASE ty = "oracle" -> AerialOracleObserver(data)
                                       [] ty = "dr" -> AerialDeadReckoning(data)
                                       [] ty = "ekf" -> AerialExtendedKalmanFilter(data)
                     /\ pc' = "run"
                     /\ raised' = "none"
           ELSE /\ estimator' = estimator
                /\ pc' = "crashed"
                /\ raised' = "RuntimeError"
    /\ last_op' = "main"
    /\ UNCHANGED <<tmr, launch, used, error>>

\* an update that keeps the guard the source has commented out: the first
\* component of the latest estimate is below that of the latest true state
AerialUpdate_timestamp_guard(e, elapsed) ==
    IF Last(e.x_hat)[1] < Last(e.x)[1]
    THEN CASE e.cls = "OracleObserver" -> AerialOracle_update(e)
           [] e.cls = "DeadReckoning" -> AerialDeadReckoning_update(e, elapsed)
           [] e.cls = "ExtendedKalmanFilter" -> AerialExtendedKalmanFilter_update(e, elapsed)
    ELSE Result(e, "none", FALSE)

AerialUpdate(e, elapsed) ==
    CASE e.cls = "OracleObserver" -> AerialOracle_update(e)
      [] e.cls = "DeadReckoning" -> AerialDeadReckoning_update(e, elapsed)
      [] e.cls = "ExtendedKalmanFilter" -> AerialExtendedKalmanFilter_update(e, elapsed)

\* one iteration of the loop of Estimator.run, i = len(t) before it
RunStep ==
    /\ pc = "run"
    /\ \E elapsed \in Durations :
        \E row \in {estimator.data[Len(estimator.t) + 1]} :
        \E e1 \in {[estimator EXCEPT
                      !.t = Append(@, row[1]),
                      !.x = Append(@, SubSeq(row, 2, 7)),
                      !.u = Append(@, SubSeq(row, 8, 9)),
                      !.y = Append(@, SubSeq(row, 10, IF Len(row) < 12 THEN Len(row) ELSE 12))]} :
        \E res \in {IF Len(estimator.t) = 0
                    THEN Result([e1 EXCEPT !.x_hat = Append(@, Last(e1.x))], "none", FALSE)
                    ELSE AerialUpdate(e1, elapsed)} :
           /\ estimator' = res.est
           /\ raised' = res.exc
           /\ last_op' = IF Len(estimator.t) = 0 THEN "seed"
                         ELSE IF res.ran THEN "update" ELSE "update_skipped"
           /\ used' = IF Len(estimator.t) > 0 /\ Len(res.est.x_hat) > Len(estimator.x_hat)
                      THEN Append(used, ReadBy(e1)) ELSE used
           /\ pc' = IF res.exc # "none" THEN "crashed"
                    ELSE IF Len(e1.t) = Len(e1.data) THEN "ran" ELSE "run"
    /\ UNCHANGED <<tmr, launch, error>>

\* drone_estimator_node.main after spin: estimator.error() is no method
AerialReport ==
    /\ pc = "ran"
    /\ pc' = "crashed"
    /\ raised' = "AttributeError"
    /\ last_op' = "error"
    /\ UNCHANGED <<tmr, launch, estimator, used, error>>

\* a call of calc_error on the estimator
AerialCalcErrorCall ==
    /\ pc \in {"run", "ran"} /\ launch.platform = "aerial"
    /\ \E res \in {AerialCalcError(estimator.x_hat, estimator.x)} :
          /\ error' = res.value
          /\ raised' = res.exc
          /\ pc' = IF res.exc = "none" THEN "done" ELSE "crashed"
    /\ last_op' = "calc_error"
    /\ UNCHANGED <<tmr, launch, estimator, used>>

Launches == GroundLaunches \cup AerialLaunches


Init ==
    /\ launch \in Launches
    /\ pc = "main"
    /\ estimator = NoEstimator
    /\ last_op = "start"
    /\ raised = "none"
    /\ used = <<>>
    /\ error = Unset
    /\ tmr = Idle

Next ==
    \/ GroundMain
    \/ callback_u
    \/ callback_x
    \/ callback_y
    \/ Update
    \/ GroundReport
    \/ AerialMain
    \/ RunStep
    \/ AerialReport
    \/ AerialCalcErrorCall

Spec == Init /\ [][Next]_vars

\* the ground node with the timer thread interleaved with the callbacks
InitThreads == Init /\ launch.platform = "ground"

NextThreads ==
    \/ GroundMain
    \/ callback_u
    \/ callback_x
    \/ callback_y
    \/ TickBegin
    \/ TickBody
    \/ GroundReport

SpecThreads == InitThreads /\ [][NextThreads]_vars

\* the aerial node alone: main builds the estimator, spin runs the loop of
\* run() on the one thread of the process, so the loop is never starved
InitReplay == Init /\ launch.platform = "aerial"

NextReplay ==
    \/ AerialMain
    \/ RunStep
    \/ AerialReport

SpecReplay == InitReplay /\ [][NextReplay]_vars /\ WF_vars(RunStep)

(***************************************************************************)
(* Properties.                                                              *)
(***************************************************************************)
\* the estimator classes whose update starts with a guard
Guarded == {"DeadReckoning", "KalmanFilter", "ExtendedKalmanFilter"}

\* the last step was a firing of update
Ticked == last_op \in {"update", "update_skipped"}

\* C1 (as claimed): for the oracle, on both platforms, every entry of the
\* estimate history equals the true-state entry at the same index.
C1_IndexwiseEqual ==
    estimator.cls = "OracleObserver" =>
        \A k \in 1..Len(estimator.x_hat) :
            k <= Len(estimator.x) /\ estimator.x_hat[k] = estimator.x[k]

\* C1 (amended): every estimate an oracle tick appended is a verbatim copy of
\* the true state that was the most recent one when the tick ran; on the
\* aerial robot, where run() makes one update per sample, the two histories
\* are equal index by index.
C1_CopiesLatest ==
    estimator.cls = "OracleObserver" =>
        /\ Len(estimator.x_hat) > 0 => Len(used) = Len(estimator.x_hat) - 1
        /\ \A k \in 2..Len(estimator.x_hat) :
              estimator.x_hat[k] = estimator.x[used[k - 1].x]
        /\ launch.platform = "aerial" =>
              \A k \in 1..Len(estimator.x_hat) :
                  k <= Len(estimator.x) /\ estimator.x_hat[k] = estimator.x[k]

C1_Witness ==
    /\ estimator.cls = "OracleObserver" /\ launch.platform = "ground"
    /\ Len(estimator.x) = 2 /\ Len(estimator.x_hat) = 3
    /\ estimator.x_hat[2] # estimator.x[2]
    /\ estimator.x_hat[3] = estimator.x[2]

\* C2: for the linear and the extended Kalman filter no measurement sample is
\* consumed by two successful updates (a tick with no newer measurement than
\* the one last consumed appends nothing).
C2_MeasurementConsumedOnce ==
    estimator.cls \in {"KalmanFilter", "ExtendedKalmanFilter"} =>
        \A i, j \in 1..Len(used) : i < j => used[i].y # used[j].y

\* C3: a tick of DR, KF or EKF that finds the input buffer, or the
\* measurement buffer it needs, empty is skipped: it raises nothing and no
\* update runs.
C3_EmptyBufferTickSkipped ==
    (/\ Ticked
     /\ estimator.cls \in Guarded
     /\ \/ Len(estimator.u) = 0
        \/ estimator.cls # "DeadReckoning" /\ Len(estimator.y) = 0)
    => raised = "none" /\ last_op = "update_skipped"

\* C4: calc_error, for any lengths Lx and Lh of two non-empty histories,
\* raises nothing and returns the error of the first min(Lx, Lh) entries of
\* each.
C4_TruncatesToShorter ==
    (last_op = "calc_error" /\ Len(estimator.x) > 0 /\ Len(estimator.x_hat) > 0) =>
        LET n == IF Len(estimator.x) < Len(estimator.x_hat)
                 THEN Len(estimator.x) ELSE Len(estimator.x_hat)
            est == SubSeq(estimator.x_hat, 1, n)
            act == SubSeq(estimator.x, 1, n)
        IN /\ raised = "none"
           /\ error = IF launch.platform = "ground"
                      THEN GroundCalcError(est, act).value
                      ELSE AerialCalcError(est, act).value

\* C5: the bearing component calc_error returns is the norm of the short
\* angular distances between the estimated and the true bearings (each
\* difference taken modulo 2 pi), over the entries it compares.
C5_BearingModulo2Pi ==
    (/\ last_op = "calc_error" /\ raised = "none"
     /\ Len(estimator.x) <= Len(estimator.x_hat))
    => LET col == IF launch.platform = "ground" THEN 2 ELSE 3
           short == [k \in 1..Len(estimator.x) |->
                        Wrap(FSub(estimator.x_hat[k][col], estimator.x[k][col]))]
       IN error[IF launch.platform = "ground" THEN 1 ELSE 3] = Norm(short)

\* C6: the linear Kalman filter on the aerial robot, the linear Kalman filter
\* on the ground robot without freeze_bearing, and an unrecognised name are
\* rejected when the estimator is selected: no estimator is constructed and
\* main ends with a RuntimeError.
C6_UnsupportedRejected ==
    LET known == IF launch.platform = "ground"
                 THEN {"oracle_observer", "dead_reckoning", "kalman_filter",
                       "extended_kalman_filter"}
                 ELSE {"oracle", "dr", "ekf"}
        unsupported ==
            \/ launch.estimator_type \notin known
            \/ /\ launch.platform = "ground"
               /\ launch.estimator_type = "kalman_filter"
               /\ ~launch.freeze_bearing
    IN unsupported =>
          /\ estimator = NoEstimator
          /\ pc # "main" => pc = "crashed" /\ raised = "RuntimeError"

\* C7 (as claimed): a tick of any estimator that has received no true state
\* ends in an error.
C7_UnderrunFatal ==
    (Ticked /\ Len(estimator.x) = 0) => raised # "none"

\* C7 (amended): a tick of an estimator that has received no true state
\* produces no estimate; the oracle's tick raises IndexError, the tick of DR,
\* KF and EKF is skipped and raises nothing.
C7_UnderrunNoEstimate ==
    (Ticked /\ Len(estimator.x) = 0) =>
        /\ Len(estimator.x_hat) = 0
        /\ estimator.cls = "OracleObserver" =>
              raised = "IndexError" /\ last_op = "update"
        /\ estimator.cls \in Guarded =>
              raised = "none" /\ last_op = "update_skipped"

C7_Witness ==
    /\ Ticked /\ Len(estimator.x) = 0
    /\ estimator.cls = "ExtendedKalmanFilter"
    /\ Len(estimator.u) > 0 /\ Len(estimator.y) > 0

\* C8: whenever the estimate history is non-empty its first entry is the
\* first true state received, and every estimate an update computed was
\* appended to a non-empty history (the history holds the seed and one entry
\* per computed estimate).
C8_Seeded ==
    /\ Len(estimator.x_hat) > 0 =>
          /\ Len(estimator.x) > 0
          /\ estimator.x_hat[1] = estimator.x[1]
          /\ Len(used) = Len(estimator.x_hat) - 1
    /\ Len(estimator.x_hat) = 0 => Len(used) = 0

C8_Witness ==
    /\ estimator.cls = "KalmanFilter"
    /\ Len(estimator.x) >= 2 /\ Len(estimator.x_hat) >= 2
    /\ estimator.x_hat[1] = estimator.x[1]
    /\ estimator.x_hat[2] # estimator.x[2]

\* C9: a tick of DR, KF or EKF whose guard (an estimate exists and is older
\* than the latest true state) is false raises nothing and leaves the whole
\* estimator -- the estimate history, P, the timing series and the buffers of
\* true states, inputs and measurements -- as it was; run() of the aerial
\* robot never makes such a tick.
C9_SkippedTickChangesNothing ==
    [][/\ (/\ last_op' \in {"update", "update_skipped"}
           /\ launch.platform = "ground"
           /\ estimator.cls \in Guarded
           /\ ~(/\ Len(estimator.x_hat) > 0
                /\ Last(estimator.x_hat)[1] < Last(estimator.x)[1]))
          => estimator' = estimator /\ raised' = "none"
       /\ launch.platform = "aerial" => last_op' # "update_skipped"]_vars

C9_Witness ==
    /\ last_op = "update_skipped" /\ raised = "none"
    /\ estimator.cls = "KalmanFilter"
    /\ Len(estimator.x_hat) >= 2
    /\ Len(estimator.u) > 0 /\ Len(estimator.y) > 0

\* C11: when the EKF's predicted position coincides with the landmark the
\* measurement Jacobian is computed without a division by zero: no NaN
\* reaches the appended estimate or P.
C11_NoNaNFromJacobian ==
    estimator.cls = "ExtendedKalmanFilter" =>
        /\ ~HasNaN(estimator.P)
        /\ \A k \in 1..Len(estimator.x_hat) :
              \A c \in 1..Len(estimator.x_hat[k]) : ~IsNaN(estimator.x_hat[k][c])

\* C12: the input, true-state, measurement and estimate buffers are empty at
\* construction, and every step leaves each of them unchanged or extends it
\* at the end.
C12_AppendOnly ==
    /\ [](last_op = "main" =>
            /\ estimator.u = <<>> /\ estimator.x = <<>>
            /\ estimator.y = <<>> /\ estimator.x_hat = <<>>)
    /\ [][LET Extends(old, new) ==
                  /\ Len(old) <= Len(new)
                  /\ \A k \in 1..Len(old) : new[k] = old[k]
          IN /\ Extends(estimator.u, estimator'.u)
             /\ Extends(estimator.x, estimator'.x)
             /\ Extends(estimator.y, estimator'.y)
             /\ Extends(estimator.x_hat, estimator'.x_hat)]_vars

C12_Witness ==
    /\ Len(estimator.u) >= 2 /\ Len(estimator.x) >= 2
    /\ Len(estimator.y) >= 2 /\ Len(estimator.x_hat) >= 2

\* C13: for DR, KF and EKF the estimate history holds the seed and one entry
\* per timing entry: no timing without a seed, and with a seeded history
\* len(x_hat) = 1 + len(update_times).
C13_OneTimingPerEstimate ==
    estimator.cls \in Guarded =>
        IF Len(estimator.x_hat) = 0
        THEN Len(estimator.update_times) = 0
        ELSE Len(estimator.x_hat) = 1 + Len(estimator.update_times)

C13_Witness ==
    /\ estimator.cls = "DeadReckoning" /\ launch.platform = "ground"
    /\ Len(estimator.x_hat) = 3 /\ Len(estimator.update_times) = 2
    /\ last_op = "update_skipped"

\* C14: dead reckoning consults no measurement.  Every tick of the DR
\* estimator has the outcome (estimate history, timing, exception) it would
\* have with any other measurement buffer, empty or not, and receiving a
\* measurement changes nothing but the measurement buffer; so two runs that
\* differ only in their measurements have the same estimate history.
C14_IgnoresMeasurements ==
    [][/\ (estimator'.cls = "DeadReckoning" /\ last_op' \in {"update", "update_skipped"})
          => \A ys \in {<<>>, << <<0, 1, 2>> >>} : \E elapsed \in Durations :
                LET before == [estimator' EXCEPT !.x_hat = estimator.x_hat,
                                                 !.update_times = estimator.update_times,
                                                 !.y = ys]
                    res == IF launch.platform = "ground"
                           THEN GroundUpdate(before, elapsed)
                           ELSE AerialUpdate(before, elapsed)
                IN /\ res.est = [estimator' EXCEPT !.y = ys]
                   /\ res.exc = raised'
       /\ (estimator'.cls = "DeadReckoning" /\ last_op' = "callback_y")
          => [estimator' EXCEPT !.y = estimator.y] = estimator]_vars

C14_Witness ==
    /\ estimator.cls = "DeadReckoning" /\ launch.platform = "ground"
    /\ last_op = "update" /\ raised = "none"
    /\ Len(estimator.x_hat) >= 2 /\ Len(estimator.y) >= 1

\* C15: when the true states follow the forward-Euler step of the estimator's
\* own model, x[k+1] = x[k] + f(x[k], u) * dt, under one constant input u,
\* every entry of the dead-reckoning estimate history equals the true state
\* at the same index.
C15_ReplaysEulerTrajectory ==
    LET e == estimator
        ground_euler ==
            /\ Len(e.u) > 0
            /\ \A k \in 1..Len(e.u) : SubSeq(e.u[k], 2, 3) = SubSeq(e.u[1], 2, 3)
            /\ \A k \in 2..Len(e.x) :
                  e.x[k] = <<e.x[k - 1][1] + e.dt>> \o DR_model(e.x[k - 1], e.u[1], e.dt)
        aerial_euler ==
            /\ \A k \in 1..Len(e.u) : e.u[k] = e.u[1]
            /\ \A k \in 2..Len(e.x) :
                  e.x[k] = Flat(Aerial_g(e.x[k - 1], e.u[1], e.dt))
    IN (/\ e.cls = "DeadReckoning"
        /\ IF launch.platform = "ground" THEN ground_euler ELSE aerial_euler)
       => \A k \in 1..Len(e.x_hat) : k <= Len(e.x) /\ e.x_hat[k] = e.x[k]

C15_Witness ==
    /\ estimator.cls = "DeadReckoning" /\ launch.platform = "ground"
    /\ Len(estimator.u) = 1 /\ Len(estimator.x) = 3 /\ Len(estimator.x_hat) = 3
    /\ estimator.x_hat[3] = estimator.x[3]
    /\ estimator.x[3][3] # estimator.x[1][3]

C17_RootMeanSquare ==
    (/\ last_op = "calc_error" /\ raised = "none"
     /\ Len(estimator.x) = Len(estimator.x_hat)
     /\ \A k \in 1..Len(estimator.x_hat) :
           \A c \in 1..Len(estimator.x_hat[k]) : ~IsNaN(estimator.x_hat[k][c]))
    => LET N == Len(estimator.x)
           first == IF launch.platform = "ground" THEN 2 ELSE 1
           bearing == IF launch.platform = "ground" THEN 2 ELSE 3
           sq(c, k) == (estimator.x_hat[k][c] - estimator.x[k][c])
                       * (estimator.x_hat[k][c] - estimator.x[k][c])
       IN \A c \in (first..Len(estimator.x[1])) \ {bearing} :
             error[c - first + 1] = Isqrt(Sum([k \in 1..N |-> sq(c, k)]) \div N)

\* C18: after a successful EKF update, A is the Jacobian of the predict
\* function g and C the Jacobian of the measurement function h the update
\* used: an entry of A (of C) is non-zero only where that output of g (of h)
\* changes with that state component, on the aerial robot the position rows
\* of A carry dt in the velocity columns, and the bearing row of C is the
\* constant 1 in the bearing column.
C18_LinearizationMatchesModel ==
    (/\ estimator.cls = "ExtendedKalmanFilter"
     /\ last_op = "update" /\ raised = "none"
     /\ ~HasNaN(estimator.C)
     /\ \A k \in 1..Len(estimator.x_hat) :
           \A c \in 1..Len(estimator.x_hat[k]) : ~IsNaN(estimator.x_hat[k][c]))
    => LET e == estimator
           ground == launch.platform = "ground"
           prev == e.x_hat[Len(e.x_hat) - 1]
           xs == IF ground THEN SubSeq(prev, 2, 6) ELSE prev
           us == IF ground THEN SubSeq(Last(e.u), 2, 3) ELSE Last(e.u)
           g(v) == Flat(IF ground THEN EKF_model(v, us, e.dt) ELSE Aerial_g(v, us, e.dt))
           h(v) == Flat(IF ground THEN EKF_h(Col(v), e.landmark)
                        ELSE Aerial_h(Col(v), e.landmark))
           bump(v, j, by) == [v EXCEPT ![j] = @ + by]
           g_reads(i, j) == \E by \in {SCALE, -SCALE} : g(bump(xs, j, by))[i] # g(xs)[i]
           h_reads(i, j) == \E by \in {SCALE, -SCALE} : h(bump(g(xs), j, by))[i] # h(g(xs))[i]
       IN /\ \A i, j \in 1..Len(xs) : e.A[i][j] # 0 => g_reads(i, j)
          /\ \A i \in 1..2 : \A j \in 1..Len(xs) : e.C[i][j] # 0 => h_reads(i, j)
          /\ ~ground => \A i \in 1..3 : e.A[i][i + 3] = e.dt
          /\ e.C[2] = [j \in 1..Len(xs) |-> IF j = (IF ground THEN 1 ELSE 3) THEN SCALE ELSE 0]

\* C19: once the estimator is constructed no step changes Q, R, the landmark
\* (or dt, phid and B), and no step of the linear Kalman filter changes A or
\* C; of the filter matrices a successful update replaces only P and, for the
\* EKF, A and C.
C19_ConstantsNeverWritten ==
    [][estimator.cls # "none" =>
          /\ estimator'.cls = estimator.cls
          /\ estimator'.Q = estimator.Q
          /\ estimator'.R = estimator.R
          /\ estimator'.landmark = estimator.landmark
          /\ estimator'.dt = estimator.dt
          /\ estimator'.phid = estimator.phid
          /\ estimator'.B = estimator.B
          /\ estimator.cls # "ExtendedKalmanFilter" =>
                estimator'.A = estimator.A /\ estimator'.C = estimator.C
          /\ estimator'.P # estimator.P =>
                /\ estimator.cls \in {"KalmanFilter", "ExtendedKalmanFilter"}
                /\ last_op' = "update" /\ raised' = "none"]_vars

C19_Witness ==
    /\ estimator.cls = "KalmanFilter"
    /\ last_op = "update" /\ raised = "none"
    /\ estimator.P # GroundKalmanFilter.P
    /\ estimator.Q = GroundKalmanFilter.Q /\ estimator.R = GroundKalmanFilter.R
    /\ estimator.A = GroundKalmanFilter.A /\ estimator.C = GroundKalmanFilter.C

C21_TimestampsStepByDt ==
    (launch.platform = "ground" /\ estimator.cls \in Guarded
        /\ \A k \in 2..Len(estimator.x) :
              estimator.x[k - 1][1] <= estimator.x[k][1])
        => /\ \A k \in 2..Len(estimator.x_hat) :
                /\ estimator.x_hat[k][1] = estimator.x_hat[k - 1][1] + estimator.dt
                /\ estimator.x_hat[k][1] > estimator.x_hat[k - 1][1]
           /\ Len(estimator.x_hat) > 0
                => Last(estimator.x_hat)[1] < Last(estimator.x)[1] + estimator.dt

\* a filter has computed two estimates, the true state was once republished
\* under its old timestamp, and the latest estimate is ahead of the
\* true-state clock
C21_Witness ==
    /\ launch.platform = "ground" /\ estimator.cls \in Guarded
    /\ last_op = "update" /\ raised = "none"
    /\ Len(estimator.x_hat) = 3
    /\ Last(estimator.x_hat)[1] > Last(estimator.x)[1]
    /\ \E k \in 2..Len(estimator.x) : estimator.x[k - 1][1] = estimator.x[k][1]

\* C22: aerial offline replay of a recording of N >= 1 samples by the oracle,
\* dead reckoning or the extended Kalman filter: after every iteration the
\* time, true-state, input, measurement and estimate buffers hold the same
\* number of entries (i + 1 after iteration i), all but the first of the
\* estimates came from one call of update each, the loop is left only after
\* N iterations (N - 1 updates), and a started run always terminates.
C22_BuffersInStep ==
    (launch.platform = "aerial" /\ estimator.cls # "none")
        => /\ Len(estimator.x) = Len(estimator.t)
           /\ Len(estimator.u) = Len(estimator.t)
           /\ Len(estimator.y) = Len(estimator.t)
           /\ Len(estimator.x_hat) = Len(estimator.t)
           /\ Len(estimator.t) <= Len(estimator.data)
           /\ Len(estimator.t) > 0 => Len(used) = Len(estimator.t) - 1
           /\ estimator.cls \in {"DeadReckoning", "ExtendedKalmanFilter"}
                => Len(estimator.update_times) = Len(used)
           /\ pc = "run" => raised = "none" /\ Len(estimator.t) < Len(estimator.data)
           /\ pc = "ran" => raised = "none" /\ Len(estimator.t) = Len(estimator.data)
           /\ pc = "crashed" => raised = "AttributeError" /\ last_op = "error"

====
